---- MODULE Spec2Model ----
\* A model of the XTL micro unit-test framework (include/xtl/ut.hpp):
\* the per-suite case registry, test_suite::run, the XTL_UT_ASSERT pipeline
\* and test_suite_manager (add_suite, add_result, run, process_results).
EXTENDS Integers, Sequences, FiniteSets, TLC

VARIABLES
    storage,            \* test_case_registry<T>::storage(): per suite type, the registered cases
    test_suites_,       \* test_suite_manager::test_suites_
    init_deinit_suite_, \* test_suite::init_deinit_suite_: which hooks each suite has
    constructed,        \* the suite types whose lazy_instance has been constructed
    results_,           \* test_suite_manager::results_
    lock_results_,      \* test_suite_manager::lock_results_: the thread holding the mutex
    current_suite_,     \* test_suite_manager::current_suite_
    current_case_,      \* test_suite::current_case_, per suite
    pc,                 \* position of the main thread
    si,                 \* position of the loop of test_suite_manager::run in test_suites_
    ci,                 \* position of the loop of test_suite::run in storage()
    pending,            \* the exception in flight while the main thread unwinds
    output,             \* the lines written to log() by process_results
    exit_status,        \* what run() returned
    log,                \* history: the hooks and case bodies invoked, in order
    op,                 \* history: the last operation performed
    nasserts,           \* history: failing assertions evaluated by the main thread
    wpc,                \* position of each worker thread
    wrec,               \* the record a worker passes to add_result
    wbuf,               \* a worker's view of results_ inside push_back
    npush               \* history: number of push_back calls completed

vars == << storage, test_suites_, init_deinit_suite_, constructed, results_,
           lock_results_, current_suite_, current_case_, pc, si, ci, pending,
           output, exit_status, log, op, nasserts, wpc, wrec, wbuf, npush >>

regVars    == << storage, test_suites_, init_deinit_suite_, constructed >>
workerVars == << wpc, wrec, wbuf >>

-----------------------------------------------------------------------------
\* Bounds of the model.

\* Case declarations (test_case objects registered) over all suites.
MaxCases == 3
\* Failing assertions the main thread evaluates in one run.
MaxAsserts == 2
\* Worker threads the case bodies of one run start.
MaxWorkers == 2
\* Calls of run() main makes.
MaxRuns == 2

Suites  == {"S1", "S2"}
Funcs   == 1 .. MaxCases
Workers == 1 .. MaxWorkers

\* std::thread::id of the thread calling run(); workers are 1 .. MaxWorkers.
MainThread == 0
\* No thread holds lock_results_.
NoThread == -1

\* nullptr for current_suite_ and for current_case_.
NoSuite == "nullptr"
NoCase  == [func |-> 0, name |-> "", file |-> "", line |-> 0]

\* The source files a case declaration can be expanded in.
Files == {"xtl_ut.cpp", "other.cpp"}

\* XTL_UT_CASE(name): { name##_ptr(), #name, __FILE__, __LINE__ }
XTL_UT_CASE(f, file) ==
    [func |-> f, name |-> "test" \o ToString(f), file |-> file, line |-> 10 * f]

Descriptors == { XTL_UT_CASE(f, file) : f \in Funcs, file \in Files }

-----------------------------------------------------------------------------
\* Result records.

\* enum class result_type
result_type == {"success", "fail", "error", "exception", "warning"}

to_string(value) ==
    CASE value = "success"   -> "OK"
      [] value = "fail"      -> "FAIL"
      [] value = "error"     -> "ERROR"
      [] value = "exception" -> "EXCEPTION"
      [] value = "warning"   -> "WARNING"
      [] OTHER               -> "UNKNOWN"

make_result(res_type, ln, f_name, s_name, c_name, fn_name, msg, tid) ==
    [type |-> res_type, line |-> ln, file_name |-> f_name, suite_name |-> s_name,
     case_name |-> c_name, function_name |-> fn_name, message |-> msg,
     thread_id |-> tid]

make_success(ln, f_name, s_name, c_name, tid) ==
    make_result("success", ln, f_name, s_name, c_name, "", "", tid)

make_fail(ln, f_name, s_name, c_name, fn_name, msg, tid) ==
    make_result("fail", ln, f_name, s_name, c_name, fn_name, msg, tid)

make_error(ln, f_name, s_name, c_name, fn_name, msg, tid) ==
    make_result("error", ln, f_name, s_name, c_name, fn_name, msg, tid)

make_exception(ln, f_name, s_name, c_name, fn_name, msg, tid) ==
    make_result("exception", ln, f_name, s_name, c_name, fn_name, msg, tid)

full_case_name(r) == r.suite_name \o "::" \o r.case_name

has_function_name(r) ==
    r.function_name # "" /\ r.function_name # full_case_name(r)

test_result_to_string(r) ==
    to_string(r.type) \o " " \o
    (IF has_function_name(r)
        THEN full_case_name(r) \o ", " \o r.function_name \o "()"
        ELSE full_case_name(r)) \o
    " at " \o r.file_name \o ", line " \o ToString(r.line) \o
    (IF r.message = "" THEN "" ELSE " - " \o r.message)

-----------------------------------------------------------------------------
\* Case registry.

\* std::find_if(begin, end, already_exists) == end
already_exists(cases, new_case) ==
    \E i \in 1 .. Len(cases) : new_case.func = cases[i].func

\* add_case without the find_if test.
add_case_unchecked(cases, new_case) == Append(cases, new_case)

add_case(cases, new_case) ==
    IF ~already_exists(cases, new_case) THEN Append(cases, new_case) ELSE cases

add_suite(suites, suite) == Append(suites, suite)

NumCases == LET RECURSIVE Sum(_)
                Sum(S) == IF S = {} THEN 0
                          ELSE LET s == CHOOSE x \in S : TRUE
                               IN Len(storage[s]) + Sum(S \ {s})
            IN Sum(Suites)

-----------------------------------------------------------------------------
\* Exceptions. What a call throws: "none" (it returned), "fatal" (fatal_error),
\* "abort" (abort_exception), "std" (a std::exception that is no fatal_error),
\* "other" (any other value, such as an int).

\* catch (fatal_error&) matches only fatal_error; everything else that reaches
\* test_suite_manager::run is caught by catch (...).
\* Every value taken by catch (fatal_error&), as if catch (...) were absent.
caught_as_always_fatal(signal) == "fatal"

caught_as(signal) == IF signal = "fatal" THEN "fatal" ELSE "other"

current_suite ==
    IF current_suite_ = NoSuite
        THEN [raised |-> TRUE, value |-> NoSuite,
              msg |-> "[XTL UT] Error getting current suite: no unit test currently is running."]
        ELSE [raised |-> FALSE, value |-> current_suite_, msg |-> ""]

\* case_name() without the test of current_case_.
case_name_unchecked(s) ==
    [raised |-> FALSE, value |-> current_case_[s].name, msg |-> ""]

case_name(s) ==
    IF current_case_[s] = NoCase
        THEN [raised |-> TRUE, value |-> "",
              msg |-> "[XTL UT] Error getting current test case name: no unit test currently is running."]
        ELSE [raised |-> FALSE, value |-> current_case_[s].name, msg |-> ""]

\* add_result without the lock_guard.
lock_guard_absent == TRUE

\* std::lock_guard<std::mutex> lock(lock_results_) can be taken
lock_guard == lock_results_ = NoThread

\* add_result without the test of current_suite_.
add_result_unguarded(results, result) ==
    [raised |-> FALSE, results |-> Append(results, result), msg |-> ""]

\* add_result as one thread runs it when nothing else touches results_.
add_result(results, result) ==
    IF current_suite_ = NoSuite
        THEN [raised |-> TRUE, results |-> results,
              msg |-> "[XTL UT] Error adding test result: no unit test currently is running. ["
                      \o test_result_to_string(result) \o "]"]
        ELSE [raised |-> FALSE, results |-> Append(results, result), msg |-> ""]

\* XTL_UT_ASSERT raising abort_exception when no suite is current.
XTL_UT_ASSERT_aborts_outside_run(fatal, ln, file, fn, tid) ==
    IF current_suite_ = NoSuite
        THEN [signal |-> IF fatal THEN "abort" ELSE "none", msg |-> "",
              results |-> results_, pushed |-> FALSE]
        ELSE [signal |-> IF fatal THEN "abort" ELSE "none", msg |-> "", pushed |-> TRUE,
              results |-> Append(results_,
                  make_fail(ln, file, current_suite_, current_case_[current_suite_].name,
                            fn, "Assertion failed: exp", tid))]

\* XTL_UT_ASSERT calling abort_test() whatever fatal is.
XTL_UT_ASSERT_always_aborts(fatal, ln, file, fn, tid) ==
    IF current_suite_ = NoSuite \/ current_case_[current_suite_] = NoCase
        THEN [signal |-> "fatal", msg |-> "", results |-> results_, pushed |-> FALSE]
        ELSE [signal |-> "abort", msg |-> "", pushed |-> TRUE,
              results |-> Append(results_,
                  make_fail(ln, file, current_suite_, current_case_[current_suite_].name,
                            fn, "Assertion failed: exp", tid))]

\* XTL_UT_ASSERT(exp, fatal) with exp false, expanded at line ln of file, in
\* function fn, evaluated by thread tid.
XTL_UT_ASSERT(fatal, ln, file, fn, tid) ==
    LET s == current_suite IN
    IF s.raised
        THEN [signal |-> "fatal", msg |-> s.msg, results |-> results_, pushed |-> FALSE]
        ELSE
    LET c == case_name(s.value) IN
    IF c.raised
        THEN [signal |-> "fatal", msg |-> c.msg, results |-> results_, pushed |-> FALSE]
        ELSE
    LET a == add_result(results_,
                 make_fail(ln, file, s.value, c.value, fn, "Assertion failed: exp", tid)) IN
    IF a.raised
        THEN [signal |-> "fatal", msg |-> a.msg, results |-> results_, pushed |-> FALSE]
        ELSE [signal |-> IF fatal THEN "abort" ELSE "none", msg |-> "",
              results |-> a.results, pushed |-> TRUE]

add_success(s, test, results) ==
    add_result(results, make_success(test.line, test.file, s, test.name, MainThread))

\* add_error building an exception record.
add_error_as_exception(s, test, msg, results) ==
    add_result(results, make_exception(test.line, test.file, s, test.name, "", msg, MainThread))

add_error(s, test, msg, results) ==
    add_result(results, make_error(test.line, test.file, s, test.name, "", msg, MainThread))

add_exception(s, test, msg, results) ==
    add_result(results, make_exception(test.line, test.file, s, test.name, "", msg, MainThread))

\* The catch clauses with catch (fatal_error&) recording the error without
\* throwing it again.
suite_catch_fatal_not_rethrown(s, test, signal, msg, results) ==
    IF signal = "abort"
        THEN [results |-> results, thrown |-> "none", pushed |-> FALSE]
        ELSE [results |-> Append(results,
                  make_error(test.line, test.file, s, test.name, "", msg, MainThread)),
              thrown |-> "none", pushed |-> TRUE]

\* The catch clauses with abort_exception falling into catch (...).
suite_catch_abort_recorded(s, test, signal, msg, results) ==
    [results |-> Append(results,
         make_exception(test.line, test.file, s, test.name, "", "Unhandled exception",
                        MainThread)),
     thrown |-> IF signal = "fatal" THEN "fatal" ELSE "none", pushed |-> TRUE]

\* The catch clauses without catch (...): a value that is no std::exception
\* leaves run().
suite_catch_no_catch_all(s, test, signal, msg, results) ==
    CASE signal = "fatal" ->
            [results |-> Append(results,
                 make_error(test.line, test.file, s, test.name, "", msg, MainThread)),
             thrown |-> "fatal", pushed |-> TRUE]
      [] signal = "abort" ->
            [results |-> results, thrown |-> "none", pushed |-> FALSE]
      [] signal = "std" ->
            [results |-> Append(results,
                 make_exception(test.line, test.file, s, test.name, "", msg, MainThread)),
             thrown |-> "none", pushed |-> TRUE]
      [] OTHER ->
            [results |-> results, thrown |-> "other", pushed |-> FALSE]

\* The catch clauses without catch (abort_exception&): the abort leaves run().
suite_catch_no_abort_clause(s, test, signal, msg, results) ==
    [results |-> results, thrown |-> IF signal = "fatal" THEN "fatal" ELSE "other",
     pushed |-> FALSE]

\* The catch clauses of test_suite::run for what the try block threw:
\* the results afterwards and what leaves run() ("none": the loop goes on).
suite_catch(s, test, signal, msg, results) ==
    CASE signal = "fatal" ->
            LET a == add_error(s, test, msg, results)
            IN  [results |-> a.results, thrown |-> "fatal", pushed |-> ~a.raised]
      [] signal = "abort" ->
            [results |-> results, thrown |-> "none", pushed |-> FALSE]
      [] signal = "std" ->
            LET a == add_exception(s, test, msg, results)
            IN  [results |-> a.results, pushed |-> ~a.raised,
                 thrown |-> IF a.raised THEN "fatal" ELSE "none"]
      [] OTHER ->
            LET a == add_exception(s, test, "Unhandled exception", results)
            IN  [results |-> a.results, pushed |-> ~a.raised,
                 thrown |-> IF a.raised THEN "fatal" ELSE "none"]

\* The try block without add_success(test).
suite_try_end_no_success(s, test, results) ==
    [results |-> results, thrown |-> "none", pushed |-> FALSE]

\* The try block of test_suite::run when the case body returned: add_success,
\* whose fatal_error is caught by the same catch clauses.
suite_try_end(s, test, results) ==
    LET a == add_success(s, test, results) IN
    IF a.raised
        THEN suite_catch(s, test, "fatal", a.msg, results)
        ELSE [results |-> a.results, thrown |-> "none", pushed |-> TRUE]

\* EXIT_SUCCESS of <cstdlib>, returned by process_results.
EXIT_SUCCESS == 0

\* The suite object whose run() the manager has called.
this_suite == test_suites_[si]
\* The loop of test_suite::run walking storage() from the back.
this_case_reversed == storage[this_suite][Len(storage[this_suite]) + 1 - ci]

\* The test_case the loop of test_suite::run is at.
this_case == storage[this_suite][ci]

\* A history entry: a hook or case body invoked in suite s, how it ended
\* (what) and the number of fail records its assertions appended (n).
Event(ev, s, f, what) == [ev |-> ev, suite |-> s, func |-> f, what |-> what, n |-> 0]

Op(name, s, d) == [name |-> name, suite |-> s, desc |-> d]

NoRecord == make_result("success", 0, "", "", "", "", "", NoThread)

-----------------------------------------------------------------------------
\* The state when the process starts, before any static object is constructed.

Init ==
    /\ storage = [s \in Suites |-> << >>]
    /\ test_suites_ = << >>
    /\ init_deinit_suite_ = [s \in Suites |-> [setup_ |-> FALSE, teardown_ |-> FALSE]]
    /\ constructed = {}
    /\ results_ = << >>
    /\ lock_results_ = NoThread
    /\ current_suite_ = NoSuite
    /\ current_case_ = [s \in Suites |-> NoCase]
    /\ pc = "startup"
    /\ si = 0
    /\ ci = 0
    /\ pending = "none"
    /\ output = << >>
    /\ exit_status = << >>
    /\ log = << >>
    /\ op = Op("start", NoSuite, NoCase)
    /\ nasserts = 0
    /\ wpc = [w \in Workers |-> "idle"]
    /\ wrec = [w \in Workers |-> NoRecord]
    /\ wbuf = [w \in Workers |-> << >>]
    /\ npush = 0

-----------------------------------------------------------------------------
\* Static initialisation: XTL_UT_SUITE constructs one lazy_instance per suite.

\* test_suite<T>::test_suite, with the assign_member objects of XTL_UT_SETUP
\* and XTL_UT_TEARDOWN (has_setup, has_teardown: the suite declares the hook).
test_suite_ctor(s, has_setup, has_teardown) ==
    /\ pc = "startup"
    /\ s \notin constructed
    /\ test_suites_' = add_suite(test_suites_, s)
    /\ init_deinit_suite_' =
           [init_deinit_suite_ EXCEPT ![s] = [setup_ |-> has_setup, teardown_ |-> has_teardown]]
    /\ constructed' = constructed \cup {s}
    /\ op' = Op("add_suite", s, NoCase)
    /\ UNCHANGED << storage, results_, lock_results_, current_suite_, current_case_,
                    pc, si, ci, pending, output, exit_status, log, nasserts,
                    wpc, wrec, wbuf, npush >>

\* test_case::test_case of a case declared in suite s.
test_case_ctor(s, d) ==
    /\ pc = "startup"
    /\ s \in constructed
    /\ NumCases < MaxCases \/ already_exists(storage[s], d)
    /\ storage' = [storage EXCEPT ![s] = add_case(@, d)]
    /\ op' = Op("add_case", s, d)
    /\ UNCHANGED << test_suites_, init_deinit_suite_, constructed, results_,
                    lock_results_, current_suite_, current_case_, pc, si, ci, pending,
                    output, exit_status, log, nasserts, wpc, wrec, wbuf, npush >>

-----------------------------------------------------------------------------
\* test_suite_manager::run

\* main calls XTL_UT_RUN: parse_cmd_args, then the loop starts.
run_begin ==
    /\ pc = "startup"
    /\ pc' = "m_loop"
    /\ si' = 1
    /\ op' = Op("run", NoSuite, NoCase)
    /\ UNCHANGED << regVars, results_, lock_results_, current_suite_, current_case_,
                    ci, pending, output, exit_status, log, nasserts, workerVars, npush >>

\* for (test_suite_itf& test : test_suites_) { current_suite_ = &test; test.run(); }
run_next_suite ==
    /\ pc = "m_loop"
    /\ si <= Len(test_suites_)
    /\ current_suite_' = test_suites_[si]
    /\ pc' = "s_init"
    /\ log' = Append(log, Event("run", test_suites_[si], 0, ""))
    /\ op' = Op("suite_run", test_suites_[si], NoCase)
    /\ UNCHANGED << regVars, results_, lock_results_, current_case_, si, ci, pending,
                    output, exit_status, nasserts, workerVars, npush >>

\* the loop is over: current_suite_ = nullptr, then process_results()
run_loop_end ==
    /\ pc = "m_loop"
    /\ si > Len(test_suites_)
    /\ current_suite_' = NoSuite
    /\ pc' = "m_report"
    /\ op' = Op("loop_end", NoSuite, NoCase)
    /\ UNCHANGED << regVars, results_, lock_results_, current_case_, si, ci, pending,
                    output, exit_status, log, nasserts, workerVars, npush >>

\* catch (fatal_error&) {} and catch (...) { results_.push_back(...) }:
\* the push_back of catch (...) takes no lock.
run_catch ==
    /\ pc = "m_catch"
    /\ IF pending = "fatal"
          THEN UNCHANGED << results_, npush >>
          ELSE /\ results_' = Append(results_,
                      make_exception(0, "ut.hpp", "test_suite_manager",
                                     "xtl::ut::test_suite_manager::run", "",
                                     "Unhandled exception", MainThread))
               /\ npush' = npush + 1
    /\ pending' = "none"
    /\ pc' = "m_report"
    /\ op' = Op("run_catch", NoSuite, NoCase)
    /\ UNCHANGED << regVars, lock_results_, current_suite_, current_case_, si, ci,
                    output, exit_status, log, nasserts, workerVars >>

\* process_results returning a failure status when some record is no success.
process_results_return_by_content(results) ==
    IF \E i \in 1 .. Len(results) : results[i].type # "success"
        THEN EXIT_SUCCESS + 1
        ELSE EXIT_SUCCESS

\* What process_results returns after writing the records of results.
process_results_return(results) == EXIT_SUCCESS

\* return process_results();
process_results ==
    /\ pc = "m_report"
    /\ output' = output \o [i \in 1 .. Len(results_) |-> test_result_to_string(results_[i])]
    /\ exit_status' = Append(exit_status, process_results_return(results_))
    /\ pc' = "done"
    /\ op' = Op("process_results", NoSuite, NoCase)
    /\ UNCHANGED << regVars, results_, lock_results_, current_suite_, current_case_,
                    si, ci, pending, log, nasserts, workerVars, npush >>

-----------------------------------------------------------------------------
\* test_suite::run

\* What a setup or teardown hook of the program under test does:
\* return at once, fail an XTL_UT_CHECK or an XTL_UT_REQUIRE, or throw a value
\* that is no fatal_error.
HookOps == {"return", "check", "require", "throw"}

hook_body(h, ln, fn) ==
    CASE h = "check"       -> XTL_UT_ASSERT(FALSE, ln, "xtl_ut.cpp", fn, MainThread)
      [] h = "require"     -> XTL_UT_ASSERT(TRUE, ln, "xtl_ut.cpp", fn, MainThread)
      [] h = "throw"       -> [signal |-> "other", msg |-> "", results |-> results_,
                               pushed |-> FALSE]
      [] OTHER             -> [signal |-> "none", msg |-> "", results |-> results_,
                               pushed |-> FALSE]

\* The setup hook called inside the scope that teardown closes: when it
\* throws, the teardown hook still runs before run() is left.
suite_initializer_ctor_in_scope(h) ==
    /\ pc = "s_init"
    /\ LET s == this_suite IN
       IF ~init_deinit_suite_[s].setup_
          THEN /\ h = "return"
               /\ pc' = "s_loop"
               /\ ci' = 1
               /\ op' = Op("no_setup", s, NoCase)
               /\ UNCHANGED << results_, npush, nasserts, log, pending >>
          ELSE LET r == hook_body(h, 2, s \o "::setup") IN
               /\ h \in {"check", "require"} => nasserts < MaxAsserts
               /\ r.pushed => lock_guard
               /\ results_' = r.results
               /\ npush' = npush + (IF r.pushed THEN 1 ELSE 0)
               /\ nasserts' = nasserts + (IF h \in {"check", "require"} THEN 1 ELSE 0)
               /\ log' = Append(log, [Event("setup", s, 0, r.signal) EXCEPT
                                          !.n = IF r.pushed THEN 1 ELSE 0])
               /\ op' = Op("setup", s, NoCase)
               /\ IF r.signal = "none"
                     THEN pc' = "s_loop" /\ ci' = 1 /\ pending' = "none"
                     ELSE pc' = "s_deinit" /\ ci' = ci /\ pending' = caught_as(r.signal)
    /\ UNCHANGED << regVars, lock_results_, current_suite_, current_case_, si,
                    output, exit_status, workerVars >>

\* suite_initializer init(init_deinit_suite_, suite()): the setup hook, if any.
\* What it throws leaves run() before the try block and reaches the manager.
suite_initializer_ctor(h) ==
    /\ pc = "s_init"
    /\ LET s == this_suite IN
       IF ~init_deinit_suite_[s].setup_
          THEN /\ h = "return"
               /\ pc' = "s_loop"
               /\ ci' = 1
               /\ op' = Op("no_setup", s, NoCase)
               /\ UNCHANGED << results_, npush, nasserts, log, pending >>
          ELSE LET r == hook_body(h, 2, s \o "::setup") IN
               /\ h \in {"check", "require"} => nasserts < MaxAsserts
               /\ r.pushed => lock_guard
               /\ results_' = r.results
               /\ npush' = npush + (IF r.pushed THEN 1 ELSE 0)
               /\ nasserts' = nasserts + (IF h \in {"check", "require"} THEN 1 ELSE 0)
               /\ log' = Append(log, [Event("setup", s, 0, r.signal) EXCEPT
                                          !.n = IF r.pushed THEN 1 ELSE 0])
               /\ op' = Op("setup", s, NoCase)
               /\ IF r.signal = "none"
                     THEN pc' = "s_loop" /\ ci' = 1 /\ pending' = "none"
                     ELSE pc' = "m_catch" /\ ci' = ci /\ pending' = caught_as(r.signal)
    /\ UNCHANGED << regVars, lock_results_, current_suite_, current_case_, si,
                    output, exit_status, workerVars >>

\* for (test_case& test : storage()) { try { current_case_ = &test; ...
suite_next_case ==
    /\ pc = "s_loop"
    /\ ci <= Len(storage[this_suite])
    /\ current_case_' = [current_case_ EXCEPT ![this_suite] = this_case]
    /\ pc' = "body"
    /\ log' = Append(log, Event("case", this_suite, this_case.func, "running"))
    /\ op' = Op("case_begin", this_suite, this_case)
    /\ UNCHANGED << regVars, results_, lock_results_, current_suite_, si, ci, pending,
                    output, exit_status, nasserts, workerVars, npush >>

\* the loop is over: current_case_ = nullptr; the closing brace of run() follows
suite_loop_end ==
    /\ pc = "s_loop"
    /\ ci > Len(storage[this_suite])
    /\ current_case_' = [current_case_ EXCEPT ![this_suite] = NoCase]
    /\ pc' = "s_deinit"
    /\ pending' = "none"
    /\ op' = Op("suite_loop_end", this_suite, NoCase)
    /\ UNCHANGED << regVars, results_, lock_results_, current_suite_, si, ci,
                    output, exit_status, log, nasserts, workerVars, npush >>

\* The case body is left (it returned or threw) and c is what the try block and
\* the catch clauses made of it: the loop goes on, or run() is left by throw e.
case_leave(c, what, fails, pushes) ==
    /\ pushes > 0 => lock_guard
    /\ results_' = c.results
    /\ npush' = npush + pushes
    /\ log' = [log EXCEPT ![Len(log)] = [@ EXCEPT !.what = what, !.n = @ + fails]]
    /\ IF c.thrown = "none"
          THEN pc' = "s_loop" /\ ci' = ci + 1 /\ pending' = "none"
          ELSE pc' = "s_deinit" /\ ci' = ci /\ pending' = c.thrown

\* The case body evaluates a failing XTL_UT_CHECK (fatal = FALSE) or
\* XTL_UT_REQUIRE (fatal = TRUE).
case_assert(fatal) ==
    /\ pc = "body"
    /\ nasserts < MaxAsserts
    /\ LET s    == this_suite
           test == this_case
           r    == XTL_UT_ASSERT(fatal, test.line + 2, test.file,
                                 s \o "::" \o test.name, MainThread)
       IN  /\ op' = Op(IF fatal THEN "require" ELSE "check", s, test)
           /\ IF r.signal = "none"
                 THEN /\ lock_guard
                      /\ results_' = r.results
                      /\ npush' = npush + 1
                      /\ log' = [log EXCEPT ![Len(log)].n = @ + 1]
                      /\ UNCHANGED << pc, ci, pending >>
                 ELSE LET c == suite_catch(s, test, r.signal, r.msg, r.results)
                      IN  case_leave(c, r.signal, IF r.pushed THEN 1 ELSE 0,
                                     (IF r.pushed THEN 1 ELSE 0) + (IF c.pushed THEN 1 ELSE 0))
    /\ nasserts' = nasserts + 1
    /\ UNCHANGED << regVars, lock_results_, current_suite_, current_case_, si,
                    output, exit_status, workerVars >>

\* The case body throws: signal is "fatal" (raise_error(msg)), "std" (a
\* std::exception whose what() is msg) or "other" (throw 0).
case_throw(signal, msg) ==
    /\ pc = "body"
    /\ LET c == suite_catch(this_suite, this_case, signal, msg, results_)
       IN  case_leave(c, signal, 0, IF c.pushed THEN 1 ELSE 0)
    /\ op' = Op("throw_" \o signal, this_suite, this_case)
    /\ UNCHANGED << regVars, lock_results_, current_suite_, current_case_, si,
                    output, exit_status, nasserts, workerVars >>

\* The case body returns: add_success(test).
case_return ==
    /\ pc = "body"
    /\ LET c == suite_try_end(this_suite, this_case, results_)
       IN  case_leave(c, IF c.thrown = "none" THEN "return" ELSE "fatal", 0,
                      IF c.pushed THEN 1 ELSE 0)
    /\ op' = Op("return", this_suite, this_case)
    /\ UNCHANGED << regVars, lock_results_, current_suite_, current_case_, si,
                    output, exit_status, nasserts, workerVars >>

\* ~suite_initializer(): the teardown hook, if any; run() is left, normally or
\* by the exception in flight. The destructor is noexcept: a hook that throws
\* ends the process in std::terminate.
suite_initializer_dtor(h) ==
    /\ pc = "s_deinit"
    /\ LET s == this_suite
           r == IF init_deinit_suite_[s].teardown_
                   THEN hook_body(h, 5, s \o "::teardown")
                   ELSE hook_body("return", 5, s \o "::teardown")
       IN  /\ ~init_deinit_suite_[s].teardown_ => h = "return"
           /\ h \in {"check", "require"} => nasserts < MaxAsserts
           /\ r.pushed => lock_guard
           /\ results_' = r.results
           /\ npush' = npush + (IF r.pushed THEN 1 ELSE 0)
           /\ nasserts' = nasserts + (IF h \in {"check", "require"} THEN 1 ELSE 0)
           /\ log' = IF init_deinit_suite_[s].teardown_
                        THEN Append(log, [Event("teardown", s, 0, r.signal) EXCEPT
                                             !.n = IF r.pushed THEN 1 ELSE 0])
                        ELSE log
           /\ op' = Op(IF init_deinit_suite_[s].teardown_ THEN "teardown" ELSE "no_teardown",
                       s, NoCase)
           /\ IF r.signal # "none"
                 THEN pc' = "terminated" /\ si' = si
                 ELSE IF pending = "none"
                         THEN pc' = "m_loop" /\ si' = si + 1
                         ELSE pc' = "m_catch" /\ si' = si
    /\ UNCHANGED << regVars, lock_results_, current_suite_, current_case_, ci, pending,
                    output, exit_status, workerVars >>

-----------------------------------------------------------------------------
\* The suites of the program under test, as in test/xtl_ut.cpp: one suite
\* declares XTL_UT_SETUP and XTL_UT_TEARDOWN (MySuite), the other declares no
\* hook (MySuite2).
declares_setup(s) == s = "S1"

declares_teardown(s) == s = "S1"

\* The identities (member function pointers) of the cases a suite declares,
\* in declaration order; their order as values has nothing to do with it:
\* one suite declares them in ascending order, the other in descending order.
declared(s) ==
    [i \in 1 .. MaxCases |-> IF s = "S1" THEN i ELSE MaxCases + 1 - i]

-----------------------------------------------------------------------------
\* The single-threaded program: static initialisation (the suites in any
\* order, each constructing its test_case members in declaration order), then
\* one call of run().

Next ==
    \/ \E s \in Suites : test_suite_ctor(s, declares_setup(s), declares_teardown(s))
    \/ \E s \in Suites :
          /\ Len(storage[s]) < MaxCases
          /\ test_case_ctor(s, XTL_UT_CASE(declared(s)[Len(storage[s]) + 1], "xtl_ut.cpp"))
    \/ run_begin
    \/ run_next_suite
    \/ run_loop_end
    \/ \E h \in HookOps : suite_initializer_ctor(h)
    \/ suite_next_case
    \/ suite_loop_end
    \/ \E fatal \in BOOLEAN : case_assert(fatal)
    \/ case_throw("fatal", "raise_error")
    \/ case_throw("std", "what")
    \/ case_throw("other", "")
    \/ case_return
    \/ \E h \in HookOps : suite_initializer_dtor(h)
    \/ run_catch
    \/ process_results

Spec == Init /\ [][Next]_vars

-----------------------------------------------------------------------------
\* Static initialisation alone, with case declarations expanded in any file.

NextReg ==
    \/ \E s \in Suites : test_suite_ctor(s, declares_setup(s), declares_teardown(s))
    \/ \E s \in Suites, d \in Descriptors : test_case_ctor(s, d)

SpecReg == Init /\ [][NextReg]_vars

-----------------------------------------------------------------------------
\* Worker threads: a case body starts a std::thread that calls
\* test_suite_manager::instance().add_result(...) once.

\* The case body starts worker w; the worker builds its record itself
\* (make_result reads std::this_thread::get_id() on the calling thread).
case_spawn(w) ==
    /\ pc = "body"
    /\ wpc[w] = "idle"
    /\ wpc' = [wpc EXCEPT ![w] = "start"]
    /\ wrec' = [wrec EXCEPT ![w] =
                   make_fail(this_case.line + 3, this_case.file, this_suite,
                             this_case.name, "worker", "from worker", w)]
    /\ op' = Op("spawn", this_suite, this_case)
    /\ UNCHANGED << regVars, results_, lock_results_, current_suite_, current_case_,
                    pc, si, ci, pending, output, exit_status, log, nasserts, wbuf, npush >>

\* add_result, the worker's part before the lock: if (!current_suite_) raise_error(msg);
w_add_result_check(w) ==
    /\ wpc[w] = "start"
    /\ wpc' = [wpc EXCEPT ![w] = IF current_suite_ = NoSuite THEN "raised" ELSE "checked"]
    /\ UNCHANGED << regVars, results_, lock_results_, current_suite_, current_case_,
                    pc, si, ci, pending, output, exit_status, log, op, nasserts,
                    wrec, wbuf, npush >>

\* std::lock_guard<std::mutex> lock(lock_results_); push_back starts on the
\* vector it finds.
w_add_result_lock(w) ==
    /\ wpc[w] = "checked"
    /\ lock_guard
    /\ lock_results_' = w
    /\ wbuf' = [wbuf EXCEPT ![w] = results_]
    /\ wpc' = [wpc EXCEPT ![w] = "locked"]
    /\ UNCHANGED << regVars, results_, current_suite_, current_case_, pc, si, ci,
                    pending, output, exit_status, log, op, nasserts, wrec, npush >>

\* push_back stores the record after the elements it found; the lock_guard
\* is destroyed. If results_ was written meanwhile by a thread that took no
\* lock (a data race), the record lands after the elements found at the start
\* or after those that are there now.
w_add_result_push(w) ==
    /\ wpc[w] = "locked"
    /\ results_' \in {Append(wbuf[w], wrec[w]), Append(results_, wrec[w])}
    /\ npush' = npush + 1
    /\ lock_results_' = IF lock_results_ = w THEN NoThread ELSE lock_results_
    /\ wpc' = [wpc EXCEPT ![w] = "done"]
    /\ UNCHANGED << regVars, current_suite_, current_case_, pc, si, ci, pending,
                    output, exit_status, log, op, nasserts, wrec, wbuf >>

\* The state after static initialisation of a program with two suites of one
\* case each.
InitMT ==
    /\ storage = [s \in Suites |->
                    << XTL_UT_CASE(declared(s)[1], "xtl_ut.cpp") >>]
    /\ test_suites_ = << "S1", "S2" >>
    /\ init_deinit_suite_ =
           [s \in Suites |-> [setup_ |-> declares_setup(s), teardown_ |-> declares_teardown(s)]]
    /\ constructed = Suites
    /\ results_ = << >>
    /\ lock_results_ = NoThread
    /\ current_suite_ = NoSuite
    /\ current_case_ = [s \in Suites |-> NoCase]
    /\ pc = "startup"
    /\ si = 0
    /\ ci = 0
    /\ pending = "none"
    /\ output = << >>
    /\ exit_status = << >>
    /\ log = << >>
    /\ op = Op("start", NoSuite, NoCase)
    /\ nasserts = 0
    /\ wpc = [w \in Workers |-> "idle"]
    /\ wrec = [w \in Workers |-> NoRecord]
    /\ wbuf = [w \in Workers |-> << >>]
    /\ npush = 0

NextMT ==
    \/ run_begin
    \/ run_next_suite
    \/ run_loop_end
    \/ suite_initializer_ctor("return")
    \/ suite_next_case
    \/ suite_loop_end
    \/ case_throw("fatal", "raise_error")
    \/ case_return
    \/ suite_initializer_dtor("return")
    \/ run_catch
    \/ process_results
    \/ \E w \in Workers : case_spawn(w)
    \/ \E w \in Workers : w_add_result_check(w)
    \/ \E w \in Workers : w_add_result_lock(w)
    \/ \E w \in Workers : w_add_result_push(w)

SpecMT == InitMT /\ [][NextMT]_vars

-----------------------------------------------------------------------------
\* Helpers of the properties.

Range(seq) == { seq[i] : i \in 1 .. Len(seq) }

\* The identities registered for a suite, in insertion order.
FuncsOf(cases) == [i \in 1 .. Len(cases) |-> cases[i].func]

IsPrefix(p, q) == Len(p) <= Len(q) /\ \A i \in 1 .. Len(p) : p[i] = q[i]

\* Number of positions of seq that satisfy Test.
Count(seq, Test(_)) == Cardinality({ i \in 1 .. Len(seq) : Test(seq[i]) })

-----------------------------------------------------------------------------
\* C1: after any sequence of registrations no two entries of a suite's registry
\* share an identity; registering a descriptor whose identity is present
\* leaves the registry as it was (the first descriptor keeps its position),
\* and registering a new identity appends exactly that descriptor at the end.
C1_RegistryDuplicateFree ==
    /\ [](\A s \in Suites : \A i, j \in 1 .. Len(storage[s]) :
              i # j => storage[s][i].func # storage[s][j].func)
    /\ [][op'.name = "add_case" =>
             LET s == op'.suite
                 d == op'.desc
             IN  IF \E i \in 1 .. Len(storage[s]) : storage[s][i].func = d.func
                    THEN storage' = storage
                    ELSE /\ storage'[s] = storage[s] \o << d >>
                         /\ \A o \in Suites \ {s} : storage'[o] = storage[o]]_vars

\* A registration of an already registered identity with another descriptor
\* has been ignored, in a registry of at least two cases.
C1_Witness ==
    /\ op.name = "add_case"
    /\ Len(storage[op.suite]) >= 2
    /\ storage[op.suite][1].func = op.desc.func
    /\ storage[op.suite][1] # op.desc

-----------------------------------------------------------------------------
\* What the history says about one suite.

\* The hooks and case bodies invoked in suite s, in order.
SuiteEvents(s) == SelectSeq(log, LAMBDA e : e.suite = s /\ e.ev # "run")

CaseEvents(s) == SelectSeq(log, LAMBDA e : e.suite = s /\ e.ev = "case")

Shape(events) == [i \in 1 .. Len(events) |-> << events[i].ev, events[i].func >>]

\* The main thread is inside run() of suite s.
Running(s) == pc \in {"s_init", "s_loop", "body", "s_deinit"} /\ this_suite = s

\* run() of suite s has been called and has been left.
Ended(s) == (\E e \in Range(log) : e.ev = "run" /\ e.suite = s) /\ ~Running(s)

SetupReturned(s) ==
    \E e \in Range(log) : e.ev = "setup" /\ e.suite = s /\ e.what = "none"

HasBothHooks(s) == init_deinit_suite_[s].setup_ /\ init_deinit_suite_[s].teardown_

\* setup, the first n registered cases in registry order, teardown.
Bracketed(s, n) ==
    << << "setup", 0 >> >> \o [i \in 1 .. n |-> << "case", storage[s][i].func >>]
    \o << << "teardown", 0 >> >>

\* C2 as stated: one call of run() of a suite with both hooks and K cases
\* invokes setup once, each of the K case bodies once, then teardown once,
\* whatever the case bodies raise (a fatal signal included).
C2_AllCasesWhateverRaised ==
    \A s \in Suites :
        Ended(s) /\ HasBothHooks(s) /\ SetupReturned(s) =>
            Shape(SuiteEvents(s)) = Bracketed(s, Len(storage[s]))

\* C2 amended: setup once, then the case bodies in registry order, each once,
\* up to and including the first case that raises a fatal signal (all K when
\* none does), then teardown once; an abort signal, a recognized error or an
\* unrecognized value raised by a case stops nothing.
C2_BracketedUpToFatal ==
    \A s \in Suites :
        Ended(s) /\ HasBothHooks(s) /\ SetupReturned(s) =>
            LET cs == CaseEvents(s)
                n  == Len(cs)
                K  == Len(storage[s])
            IN  /\ n <= K
                /\ Shape(SuiteEvents(s)) = Bracketed(s, n)
                /\ \A i \in 1 .. n - 1 : cs[i].what # "fatal"
                /\ n < K => n >= 1 /\ cs[n].what = "fatal"

\* A suite with both hooks and three cases whose first case aborted and whose
\* second case raised a fatal signal has left run().
C2_Witness ==
    /\ Ended("S1") /\ HasBothHooks("S1") /\ SetupReturned("S1")
    /\ Len(storage["S1"]) = 3
    /\ Len(CaseEvents("S1")) = 2
    /\ CaseEvents("S1")[1].what = "abort"
    /\ CaseEvents("S1")[2].what = "fatal"
    /\ Shape(SuiteEvents("S1")) = Bracketed("S1", 2)

-----------------------------------------------------------------------------
\* What the history says about the run.

\* Some case body has raised a fatal signal.
FatalRaised == \E e \in Range(log) : e.ev = "case" /\ e.what = "fatal"

\* run() has returned and nothing ended it early: no case raised a fatal
\* signal and every setup hook returned.
CompletedRun ==
    /\ pc = "done"
    /\ \A e \in Range(log) : e.what # "fatal" /\ (e.ev = "setup" => e.what = "none")

\* Every registered suite has run: all its cases in registry order, and its
\* teardown hook, if it has one, once.
AllExecuted ==
    /\ [i \in 1 .. Len(SelectSeq(log, LAMBDA e : e.ev = "run")) |->
            SelectSeq(log, LAMBDA e : e.ev = "run")[i].suite] = test_suites_
    /\ \A s \in Range(test_suites_) :
          /\ FuncsOf(CaseEvents(s)) = FuncsOf(storage[s])
          /\ init_deinit_suite_[s].teardown_ =>
                 Count(log, LAMBDA e : e.ev = "teardown" /\ e.suite = s) = 1

\* The lines process_results writes for the records of results.
Rendered(results) == [i \in 1 .. Len(results) |-> test_result_to_string(results[i])]

\* The records of results_ that carry suite s and the name of its case f.
RecordsOf(s, f) ==
    SelectSeq(results_, LAMBDA r :
        /\ r.suite_name = s
        /\ \E d \in Range(storage[s]) : d.func = f /\ d.name = r.case_name)

\* results' is results with exactly one record r appended.
Appended(results, results2) ==
    Len(results2) = Len(results) + 1 /\ SubSeq(results2, 1, Len(results)) = results

Last(seq) == seq[Len(seq)]

-----------------------------------------------------------------------------
\* C3: once a case body has raised a fatal signal nothing else of the run
\* executes but the teardown hook of that suite (no further case of the suite,
\* no case or hook of a later suite); the records collected so far stay in
\* results_, the manager catches the signal and goes on to process_results,
\* and when run() has returned the report holds a line for every record.
\* The main thread goes on until run() returns, unless the teardown hook
\* running during the unwinding throws (the process ends in std::terminate).
C3_FatalStopsRunAndReports ==
    /\ [](\A i \in 1 .. Len(log) :
              log[i].ev = "case" /\ log[i].what = "fatal" =>
                  \A j \in i + 1 .. Len(log) :
                      j = i + 1 /\ log[j].ev = "teardown" /\ log[j].suite = log[i].suite)
    /\ [](FatalRaised /\ pc = "done" =>
              /\ output = Rendered(results_)
              /\ \E r \in Range(results_) : r.type = "error")
    /\ [](FatalRaised /\ pc \notin {"done", "terminated"} => ENABLED Next)
    /\ [][FatalRaised => IsPrefix(results_, results_')]_vars
    /\ [][FatalRaised /\ pc = "m_catch" =>
              pc' = "m_report" /\ results_' = results_]_vars

\* A run of two suites whose very first case raised a fatal signal after a
\* failing check has returned: the report holds both records, and the other
\* cases and the second suite never ran.
C3_Witness ==
    /\ pc = "done"
    /\ Len(test_suites_) = 2
    /\ Len(storage[test_suites_[1]]) = 2
    /\ Len(storage[test_suites_[2]]) = 1
    /\ Count(log, LAMBDA e : e.ev = "case") = 1
    /\ FatalRaised
    /\ Len(results_) = 2
    /\ results_[1].type = "fail" /\ results_[2].type = "error"
    /\ output = Rendered(results_)

-----------------------------------------------------------------------------
\* C4: a failing XTL_UT_CHECK in a case body appends exactly one fail record
\* for the current suite and case and raises nothing: the main thread stays in
\* the same body; and in a run that nothing ended early every case of every
\* suite has executed, failing checks or not.
C4_CheckRecordsAndContinues ==
    /\ [][op'.name = "check" /\ nasserts' = nasserts + 1 =>
             /\ pc = "body" /\ pc' = "body"
             /\ Appended(results_, results_')
             /\ Last(results_').type = "fail"
             /\ Last(results_').suite_name = this_suite
             /\ Last(results_').case_name = this_case.name
             /\ Last(results_').message = "Assertion failed: exp"
             /\ ci' = ci /\ si' = si /\ pending' = "none"
             /\ current_suite_' = current_suite_ /\ current_case_' = current_case_]_vars
    /\ [](CompletedRun => AllExecuted)

\* A completed run in which the first case of the first suite failed a check
\* and returned, and a later case of that suite and a case of the second
\* suite ran.
C4_Witness ==
    /\ CompletedRun
    /\ Len(test_suites_) = 2
    /\ Len(CaseEvents(test_suites_[1])) = 2
    /\ CaseEvents(test_suites_[1])[1].n = 1
    /\ CaseEvents(test_suites_[1])[1].what = "return"
    /\ Len(CaseEvents(test_suites_[2])) = 1

-----------------------------------------------------------------------------
\* C5: a failing XTL_UT_REQUIRE in the body of case C appends its fail record
\* and ends only C: no completion record is added (all records of C are the
\* fail records of its assertions), the loop goes on with the next case of the
\* same suite, and in a run that nothing ended early every case of every suite
\* has executed and every teardown hook has run.
C5_AbortEndsOnlyTheCase ==
    /\ [][op'.name = "require" /\ nasserts' = nasserts + 1 =>
             /\ pc = "body" /\ pc' = "s_loop"
             /\ Appended(results_, results_')
             /\ Last(results_').type = "fail"
             /\ Last(results_').suite_name = this_suite
             /\ Last(results_').case_name = this_case.name
             /\ Last(log').what = "abort"
             /\ ci' = ci + 1 /\ si' = si /\ pending' = "none"
             /\ current_suite_' = current_suite_]_vars
    /\ [](\A e \in Range(log) :
              e.ev = "case" /\ e.what = "abort" =>
                  /\ Len(RecordsOf(e.suite, e.func)) = e.n
                  /\ \A r \in Range(RecordsOf(e.suite, e.func)) : r.type = "fail")
    /\ [](CompletedRun => AllExecuted)

\* A completed run in which the first case of the first suite (which has a
\* teardown hook) aborted, its second case returned, the teardown hook ran and
\* the second suite ran a case.
C5_Witness ==
    /\ CompletedRun
    /\ Len(test_suites_) = 2
    /\ init_deinit_suite_[test_suites_[1]].teardown_
    /\ Len(CaseEvents(test_suites_[1])) = 2
    /\ CaseEvents(test_suites_[1])[1].what = "abort"
    /\ CaseEvents(test_suites_[1])[2].what = "return"
    /\ Len(RecordsOf(test_suites_[1], CaseEvents(test_suites_[1])[1].func)) = 1
    /\ Len(CaseEvents(test_suites_[2])) = 1
    /\ AllExecuted

-----------------------------------------------------------------------------
\* The positions of results_ that carry suite s and the name of its case f.
PositionsOf(s, f) ==
    { i \in 1 .. Len(results_) :
        /\ results_[i].suite_name = s
        /\ \E d \in Range(storage[s]) : d.func = f /\ d.name = results_[i].case_name }

Contiguous(P) == \A i, j \in P : \A m \in i .. j : m \in P

\* C6: in the single-threaded run, a case whose body failed k >= 0 checks and
\* then returned has exactly k + 1 records in results_, next to each other:
\* k fail records followed by one success record.
C6_FailsThenOneSuccess ==
    \A e \in Range(log) :
        e.ev = "case" /\ e.what = "return" =>
            LET rs == RecordsOf(e.suite, e.func) IN
            /\ Len(rs) = e.n + 1
            /\ \A i \in 1 .. e.n : rs[i].type = "fail"
            /\ rs[e.n + 1].type = "success"
            /\ Contiguous(PositionsOf(e.suite, e.func))

\* The scenario of the claim: one suite with three cases, only the second
\* fails one check; the run has returned with exactly four records, in the
\* order success, fail, success, success.
C6_Witness ==
    /\ pc = "done"
    /\ Len(test_suites_) = 1
    /\ Len(storage[test_suites_[1]]) = 3
    /\ LET cases == storage[test_suites_[1]] IN
       /\ [i \in 1 .. Len(results_) |-> results_[i].type]
              = << "success", "fail", "success", "success" >>
       /\ [i \in 1 .. Len(results_) |-> results_[i].case_name]
              = << cases[1].name, cases[2].name, cases[2].name, cases[3].name >>
       /\ \A i \in 1 .. Len(results_) : results_[i].suite_name = test_suites_[1]

-----------------------------------------------------------------------------
\* C7: under every interleaving, each worker thread that called add_result
\* while a suite was current has its record in results_ exactly once as soon
\* as its call has returned and not before, and no push_back of any thread is
\* lost: results_ holds as many records as push_back calls were completed.
C7_ConcurrentAddResult ==
    /\ Len(results_) = npush
    /\ \A w \in Workers :
          Count(results_, LAMBDA r : r.thread_id = w) = IF wpc[w] = "done" THEN 1 ELSE 0
    /\ \A w \in Workers : wpc[w] = "done" => wrec[w] \in Range(results_)

\* All worker threads have returned from add_result, and the main thread has
\* appended records of its own between theirs.
C7_Witness ==
    /\ \A w \in Workers : wpc[w] = "done"
    /\ Count(results_, LAMBDA r : r.thread_id \in Workers) = MaxWorkers
    /\ results_[1].thread_id \in Workers
    /\ results_[2].thread_id = MainThread
    /\ Last(results_).thread_id \in Workers

-----------------------------------------------------------------------------
\* C8 as stated: whenever no case body is executing (before the run, in a
\* setup or teardown hook, after a suite's run() has been left, after run()
\* has returned, also when a fatal signal stopped it), case_name() of every
\* suite raises a fatal error.
C8_CaseNameFailsOutsideCase ==
    pc \in {"startup", "s_init", "s_deinit", "m_loop", "m_catch", "m_report", "done"} =>
        \A s \in Suites : case_name(s).raised


-----------------------------------------------------------------------------
\* The suites whose run() has been called, in call order.
RunSuites ==
    LET runs == SelectSeq(log, LAMBDA e : e.ev = "run")
    IN  [i \in 1 .. Len(runs) |-> runs[i].suite]

\* C9: add_suite appends, and nothing changes the registries once run() has
\* started; the suites run one at a time in the order of test_suites_; while
\* one runs (setup, cases, teardown) it is the manager's current suite and
\* every hook and case invoked is its own; the case bodies of a suite are
\* invoked in the insertion order of its registry; a completed run has
\* executed every suite and case (a suite without cases: its hooks only).
C9_RegistrationOrderIsExecutionOrder ==
    /\ [][op'.name = "add_suite" =>
              test_suites_' = test_suites_ \o << op'.suite >>]_vars
    /\ [][pc # "startup" => test_suites_' = test_suites_ /\ storage' = storage]_vars
    /\ [](IsPrefix(RunSuites, test_suites_))
    /\ [](pc \in {"s_init", "s_loop", "body", "s_deinit"} =>
              /\ Len(RunSuites) = si
              /\ current_suite_ = test_suites_[si])
    /\ [](\A j \in 1 .. Len(log) :
              log[j].ev # "run" =>
                  \E i \in 1 .. j - 1 :
                      /\ log[i].ev = "run" /\ log[i].suite = log[j].suite
                      /\ \A m \in i + 1 .. j : log[m].ev # "run")
    /\ [](\A s \in Suites : IsPrefix(FuncsOf(CaseEvents(s)), FuncsOf(storage[s])))
    /\ [](CompletedRun => AllExecuted)

\* A completed run of two suites registered as S2, S1: S2 registered the
\* cases 3, 2 in that order and ran them in that order, then S1, which has no
\* case, ran its setup and teardown hooks only.
C9_Witness ==
    /\ CompletedRun
    /\ test_suites_ = << "S2", "S1" >>
    /\ FuncsOf(storage["S2"]) = << 3, 2 >>
    /\ storage["S1"] = << >>
    /\ [i \in 1 .. Len(log) |-> << log[i].ev, log[i].suite, log[i].func >>]
           = << << "run", "S2", 0 >>, << "case", "S2", 3 >>, << "case", "S2", 2 >>,
                << "run", "S1", 0 >>, << "setup", "S1", 0 >>, << "teardown", "S1", 0 >> >>

-----------------------------------------------------------------------------
\* C10: a case body that throws a std::exception (no fatal_error) or any other
\* value is isolated: the step appends exactly one exception record for the
\* case, with the exception's what() or with "Unhandled exception", and the
\* loop goes on with the next case; the case has no success record; and in a
\* run that nothing ended early every case of every suite and every teardown
\* hook has executed.
C10_ExceptionIsolatedToCase ==
    /\ [][/\ Len(log) > 0 /\ Len(log') = Len(log)
          /\ Last(log).what = "running"
          /\ Last(log').what \in {"std", "other"}
          =>
          /\ pc = "body" /\ pc' = "s_loop"
          /\ Appended(results_, results_')
          /\ Last(results_') =
                 make_exception(this_case.line, this_case.file, this_suite, this_case.name,
                     "", IF Last(log').what = "std" THEN "what" ELSE "Unhandled exception",
                     MainThread)
          /\ ci' = ci + 1 /\ si' = si /\ pending' = "none"
          /\ current_suite_' = current_suite_]_vars
    /\ [](\A e \in Range(log) :
              e.ev = "case" /\ e.what \in {"std", "other"} =>
                  LET rs == RecordsOf(e.suite, e.func) IN
                  /\ Len(rs) = e.n + 1
                  /\ Count(rs, LAMBDA r : r.type = "exception") = 1
                  /\ Count(rs, LAMBDA r : r.type = "success") = 0)
    /\ [](CompletedRun => AllExecuted)

\* The run of MySuite2 in test/xtl_ut.cpp: the first of three cases throws an
\* int, the other two return; the run is complete with the records
\* exception ("Unhandled exception"), success, success.
C10_Witness ==
    /\ CompletedRun
    /\ test_suites_ = << "S2" >>
    /\ Len(storage["S2"]) = 3
    /\ CaseEvents("S2")[1].what = "other"
    /\ [i \in 1 .. Len(results_) |-> results_[i].type]
           = << "exception", "success", "success" >>
    /\ results_[1].message = "Unhandled exception"
    /\ [i \in 1 .. Len(results_) |-> results_[i].case_name]
           = [i \in 1 .. 3 |-> storage["S2"][i].name]

-----------------------------------------------------------------------------
\* The hooks and case bodies invoked so far, without the run() markers.
Executed == SelectSeq(log, LAMBDA e : e.ev # "run")

\* C11 as stated: every call of run() goes on until it has invoked
\* process_results, whatever the hooks and case bodies do (inside run() a
\* step is always possible); process_results is invoked exactly once, after
\* the last hook or case executed, and writes one line per record of
\* results_, in order.
C11_RunAlwaysReportsOnce ==
    /\ [](pc \notin {"startup", "done"} => ENABLED Next)
    /\ [](Len(exit_status) <= 1)
    /\ [](pc = "done" => Len(exit_status) = 1 /\ output = Rendered(results_))
    /\ [][Len(exit_status) > 0 => log' = log /\ output' = output]_vars

-----------------------------------------------------------------------------
\* User code on the main thread that reaches the manager directly: in main
\* before XTL_UT_RUN or after it returned, or in a case body.

\* The record user code hands to add_result.
user_record == make_fail(60, "xtl_ut.cpp", "user", "direct", "main", "by hand", MainThread)

\* test_suite_manager::instance().add_result(test_result::make_fail(...)) called
\* by user code; a fatal_error it raises outside run() is caught by the caller.
main_add_result ==
    /\ pc \in {"startup", "body", "done"}
    /\ LET a == add_result(results_, user_record) IN
       /\ ~a.raised => nasserts < MaxAsserts /\ lock_guard
       /\ results_' = a.results
       /\ npush' = npush + (IF a.raised THEN 0 ELSE 1)
       /\ nasserts' = nasserts + (IF a.raised THEN 0 ELSE 1)
       /\ op' = Op(IF a.raised THEN "add_result_raised" ELSE "add_result",
                   current_suite_, [NoCase EXCEPT !.name = a.msg])
    /\ UNCHANGED << regVars, lock_results_, current_suite_, current_case_, pc, si, ci,
                    pending, output, exit_status, log, workerVars >>

\* XTL_UT_CHECK(exp) or XTL_UT_REQUIRE(exp) (fatal) evaluated in main, outside
\* run(), where what it raises is caught by the caller; one whose exp holds
\* also in a case body.
main_assert(exp, fatal) ==
    /\ pc \in {"startup", "done"} \/ (exp /\ pc = "body")
    /\ IF exp
          THEN /\ op' = Op((IF fatal THEN "require" ELSE "check") \o "_passed",
                           current_suite_, NoCase)
               /\ UNCHANGED << results_, npush, nasserts >>
          ELSE LET r == XTL_UT_ASSERT(fatal, 63, "xtl_ut.cpp", "main", MainThread) IN
               /\ r.pushed => nasserts < MaxAsserts /\ lock_guard
               /\ results_' = r.results
               /\ npush' = npush + (IF r.pushed THEN 1 ELSE 0)
               /\ nasserts' = nasserts + (IF r.pushed THEN 1 ELSE 0)
               /\ op' = Op((IF fatal THEN "require" ELSE "check") \o "_raised_" \o r.signal,
                           current_suite_, [NoCase EXCEPT !.name = r.msg])
    /\ UNCHANGED << regVars, lock_results_, current_suite_, current_case_, pc, si, ci,
                    pending, output, exit_status, log, workerVars >>

\* A program of two suites of one case each whose main and case bodies also
\* call the manager directly; a setup hook may throw, a case may raise a
\* fatal error.
NextAPI ==
    \/ run_begin
    \/ run_next_suite
    \/ run_loop_end
    \/ \E h \in {"return", "throw"} : suite_initializer_ctor(h)
    \/ suite_next_case
    \/ suite_loop_end
    \/ case_throw("fatal", "raise_error")
    \/ case_return
    \/ suite_initializer_dtor("return")
    \/ run_catch
    \/ process_results
    \/ main_add_result
    \/ \E exp, fatal \in BOOLEAN : main_assert(exp, fatal)

SpecAPI == InitMT /\ [][NextAPI]_vars

-----------------------------------------------------------------------------
\* C12: add_result called while current_suite_ is null raises the fatal error
\* "Error adding test result" and leaves results_ as it was; called while
\* current_suite_ is set it appends exactly the record it was given at the end
\* of results_ and changes neither current_suite_, current_case_,
\* test_suites_ nor the registries.
C12_AddResultGuard ==
    /\ [][op'.name = "add_result_raised" =>
             /\ current_suite_ = NoSuite
             /\ results_' = results_
             /\ op'.desc.name = "[XTL UT] Error adding test result: no unit test currently is running. ["
                                    \o test_result_to_string(user_record) \o "]"]_vars
    /\ [][op'.name = "add_result" =>
             /\ current_suite_ # NoSuite
             /\ results_' = results_ \o << user_record >>
             /\ current_suite_' = current_suite_ /\ current_case_' = current_case_
             /\ test_suites_' = test_suites_ /\ storage' = storage]_vars
    /\ [](current_suite_ = NoSuite /\ pc \in {"startup", "done"} =>
              add_result(results_, user_record).raised)

\* After a run that ended normally, in which a case body called add_result
\* and had its record appended, main calls add_result: it raises, and
\* results_ still ends with the success record of the last case.
C12_Witness ==
    /\ pc = "done"
    /\ current_suite_ = NoSuite
    /\ op.name = "add_result_raised"
    /\ user_record \in Range(results_)
    /\ Last(results_).type = "success"

-----------------------------------------------------------------------------
\* C13 as stated: when run() invokes process_results, and ever after run()
\* has returned, current_suite_ is null, whether the loop over the suites
\* ended normally, was stopped by a fatal error or by any other exception.
C13_CurrentSuiteNullAtReport ==
    pc \in {"m_report", "done"} => current_suite_ = NoSuite

-----------------------------------------------------------------------------
\* C14 as stated: current_case_ of a suite is set only while the main thread
\* is in the loop over that suite's cases (a case body or the handling of
\* what it raised); it is null before the first suite starts, during the
\* setup and teardown hooks and after the suite's run() has been left, also
\* when a fatal error left it.
C14_CurrentCaseOnlyInBody ==
    \A s \in Suites :
        current_case_[s] # NoCase =>
            /\ pc \in {"s_loop", "body"}
            /\ this_suite = s
            /\ current_case_[s] \in Range(storage[s])

-----------------------------------------------------------------------------
\* C15 as stated: results_ is append-only (every step leaves the records
\* collected so far as a prefix of results_), and once process_results has
\* been called no operation (add_result, a failing assertion) adds a record
\* to results_ any more.
C15_AppendOnlyFrozenByReport ==
    /\ [][IsPrefix(results_, results_')]_vars
    /\ [][Len(exit_status) > 0 => results_' = results_]_vars

-----------------------------------------------------------------------------
\* Worker threads next to a run that an exception stops: the suites are
\* registered in either order, and a setup hook may throw a value that is no
\* fatal_error, which reaches catch (...) of test_suite_manager::run.

InitRace ==
    /\ storage = [s \in Suites |->
                    << XTL_UT_CASE(declared(s)[1], "xtl_ut.cpp") >>]
    /\ test_suites_ \in { << "S1", "S2" >>, << "S2", "S1" >> }
    /\ init_deinit_suite_ =
           [s \in Suites |-> [setup_ |-> declares_setup(s), teardown_ |-> declares_teardown(s)]]
    /\ constructed = Suites
    /\ results_ = << >>
    /\ lock_results_ = NoThread
    /\ current_suite_ = NoSuite
    /\ current_case_ = [s \in Suites |-> NoCase]
    /\ pc = "startup"
    /\ si = 0
    /\ ci = 0
    /\ pending = "none"
    /\ output = << >>
    /\ exit_status = << >>
    /\ log = << >>
    /\ op = Op("start", NoSuite, NoCase)
    /\ nasserts = 0
    /\ wpc = [w \in Workers |-> "idle"]
    /\ wrec = [w \in Workers |-> NoRecord]
    /\ wbuf = [w \in Workers |-> << >>]
    /\ npush = 0

NextRace ==
    \/ NextMT
    \/ suite_initializer_ctor("throw")

SpecRace == InitRace /\ [][NextRace]_vars

\* Some worker thread is inside push_back on results_.
AppendInProgress == \E w \in Workers : wpc[w] = "locked"

\* C16 as stated: every append to results_ is made by a thread that holds
\* lock_results_, so no append starts while another thread is inside
\* push_back, and process_results reads results_ only when no append is in
\* progress.
C16_AppendsUnderLock ==
    /\ [][Len(results_') > Len(results_) =>
             \/ ~AppendInProgress
             \/ \E w \in Workers : lock_results_ = w /\ wpc[w] = "locked" /\ wpc'[w] = "done"]_vars
    /\ [][pc = "m_report" /\ pc' = "done" => ~AppendInProgress]_vars

-----------------------------------------------------------------------------
\* The severities of the records collected.
TypesOf(results) == { results[i].type : i \in 1 .. Len(results) }

\* C17: what process_results, and so run(), returns is EXIT_SUCCESS whatever
\* results_ holds: only success records, or fail, error and exception
\* records in any number.
C17_ExitStatusAlwaysSuccess ==
    /\ \A i \in 1 .. Len(exit_status) : exit_status[i] = EXIT_SUCCESS
    /\ pc = "done" => Len(exit_status) = 1

\* run() has returned EXIT_SUCCESS with fail, exception and error records in
\* the report.
C17_Witness ==
    /\ pc = "done"
    /\ exit_status = << EXIT_SUCCESS >>
    /\ {"fail", "exception", "error"} \subseteq TypesOf(results_)
    /\ output = Rendered(results_)

-----------------------------------------------------------------------------
\* No setup or teardown hook has appended a record.
HooksEmitNothing == \A e \in Range(log) : e.ev \in {"setup", "teardown"} => e.n = 0

\* C18: the step in which a case body raises a fatal error appends exactly
\* one error record built from the case descriptor (file, line, suite, case)
\* with the error's message, and leaves run() with the error in flight, the
\* teardown hook still to come; the case gets no success record; the manager
\* catches the fatal error without adding a record; so when no hook emits
\* anything the error record is the last record and the last line of the
\* report.
C18_FatalRecordsOneError ==
    /\ [][/\ Len(log) > 0 /\ Len(log') = Len(log)
          /\ Last(log).what = "running"
          /\ Last(log').what = "fatal"
          =>
          /\ pc = "body" /\ pc' = "s_deinit" /\ pending' = "fatal"
          /\ Appended(results_, results_')
          /\ Last(results_') =
                 make_error(this_case.line, this_case.file, this_suite, this_case.name,
                            "", "raise_error", MainThread)]_vars
    /\ [][pc = "m_catch" /\ pending = "fatal" =>
              results_' = results_ /\ pc' = "m_report"]_vars
    /\ [](\A e \in Range(log) :
              e.ev = "case" /\ e.what = "fatal" =>
                  LET rs == RecordsOf(e.suite, e.func) IN
                  /\ Count(rs, LAMBDA r : r.type = "error") = 1
                  /\ Count(rs, LAMBDA r : r.type = "success") = 0)
    /\ [](pc = "done" /\ FatalRaised /\ HooksEmitNothing =>
              /\ Last(results_).type = "error"
              /\ Last(output) = test_result_to_string(Last(results_)))

\* The suite with both hooks ran two cases: the first returned, the second
\* raised a fatal error; teardown ran, run() returned, and the report ends
\* with the error record of the second case.
C18_Witness ==
    /\ pc = "done"
    /\ HooksEmitNothing
    /\ Len(test_suites_) = 2 /\ test_suites_[1] = "S1"
    /\ [i \in 1 .. Len(log) |-> << log[i].ev, log[i].what >>]
           = << << "run", "" >>, << "setup", "none" >>, << "case", "return" >>,
                << "case", "fatal" >>, << "teardown", "none" >> >>
    /\ [i \in 1 .. Len(results_) |-> results_[i].type] = << "success", "error" >>
    /\ Last(results_) = make_error(storage["S1"][2].line, storage["S1"][2].file, "S1",
                                   storage["S1"][2].name, "", "raise_error", MainThread)
    /\ Last(output) = "ERROR S1::test2 at xtl_ut.cpp, line 20 - raise_error"

-----------------------------------------------------------------------------
\* A setup hook has thrown a value that is no fatal_error.
SetupThrewOther == \E e \in Range(log) : e.ev = "setup" /\ e.what = "other"

\* The record catch (...) of test_suite_manager::run makes.
IsSynthetic(r) ==
    /\ r.type = "exception"
    /\ r.message = "Unhandled exception"
    /\ r.suite_name = "test_suite_manager"
    /\ r.line = 0
    /\ r.thread_id = MainThread

\* C19: a value that is no fatal_error leaves a suite's run() only from its
\* setup hook; nothing else of the run executes after it (no case, no
\* teardown, no later suite); the manager appends exactly one synthetic
\* exception record "Unhandled exception" after the records collected before,
\* which stay as they were, and goes on to process_results: the synthetic
\* record is the last record and the last line of the report.
C19_EscapedErrorGetsSyntheticRecord ==
    /\ [][pc = "m_catch" /\ pending = "other" =>
              /\ Appended(results_, results_')
              /\ IsSynthetic(Last(results_'))
              /\ pc' = "m_report" /\ log' = log]_vars
    /\ [][pc' = "m_catch" /\ pending' = "other" =>
              pc = "s_init" /\ Last(log').ev = "setup" /\ results_' = results_]_vars
    /\ [](\A i \in 1 .. Len(log) :
              log[i].ev = "setup" /\ log[i].what = "other" => i = Len(log))
    /\ [](SetupThrewOther /\ pc \in {"m_report", "done"} =>
              /\ results_ # << >>
              /\ IsSynthetic(Last(results_))
              /\ Count(results_, IsSynthetic) = 1)
    /\ [](SetupThrewOther /\ pc = "done" => output = Rendered(results_))
    /\ [](SetupThrewOther => pc \in {"m_catch", "m_report", "done"})

\* Two suites registered as S2, S1 with one case each: the case of S2
\* returned, the setup hook of S1 threw; run() has returned, the case of S1
\* never ran, and the report is the success record followed by the synthetic
\* exception record.
C19_Witness ==
    /\ pc = "done"
    /\ test_suites_ = << "S2", "S1" >>
    /\ Len(storage["S1"]) = 1 /\ Len(storage["S2"]) = 1
    /\ [i \in 1 .. Len(log) |-> << log[i].ev, log[i].suite, log[i].what >>]
           = << << "run", "S2", "" >>, << "case", "S2", "return" >>,
                << "run", "S1", "" >>, << "setup", "S1", "other" >> >>
    /\ [i \in 1 .. Len(results_) |-> results_[i].type] = << "success", "exception" >>
    /\ IsSynthetic(results_[2])
    /\ Len(output) = 2

-----------------------------------------------------------------------------
\* The operations of main_assert, by what the assertion did.
AssertFailedOps ==
    { k \o "_raised_" \o sig : k \in {"check", "require"}, sig \in {"none", "abort", "fatal"} }

AssertPassedOps == {"check_passed", "require_passed"}

\* C20: a failing XTL_UT_CHECK or XTL_UT_REQUIRE evaluated while
\* current_suite_ is null raises the fatal error of current_suite() ("Error
\* getting current suite") and appends nothing; it never raises
\* abort_exception there and never returns normally; an assertion whose
\* expression holds changes nothing, in main or in a case body.
C20_AssertOutsideRunIsFatal ==
    /\ [][op'.name \in AssertFailedOps /\ current_suite_ = NoSuite =>
              /\ op'.name \in {"check_raised_fatal", "require_raised_fatal"}
              /\ op'.desc.name = current_suite.msg
              /\ current_suite.msg =
                     "[XTL UT] Error getting current suite: no unit test currently is running."
              /\ results_' = results_ /\ npush' = npush]_vars
    /\ [][op'.name \in AssertPassedOps =>
              /\ results_' = results_ /\ npush' = npush
              /\ current_suite_' = current_suite_ /\ current_case_' = current_case_
              /\ pc' = pc /\ si' = si /\ ci' = ci /\ pending' = pending
              /\ log' = log /\ output' = output /\ exit_status' = exit_status]_vars

\* After a run that ended normally and collected records, main evaluates a
\* failing XTL_UT_REQUIRE: it raised the fatal error and results_ still ends
\* with the success record of the last case.
C20_Witness ==
    /\ pc = "done"
    /\ current_suite_ = NoSuite
    /\ op.name = "require_raised_fatal"
    /\ Len(results_) = 2
    /\ Last(results_).type = "success"

-----------------------------------------------------------------------------
\* Programs whose suites declare any combination of XTL_UT_SETUP and
\* XTL_UT_TEARDOWN: two suites of one case each, registered in either order.

InitHooks ==
    /\ storage = [s \in Suites |->
                    << XTL_UT_CASE(declared(s)[1], "xtl_ut.cpp") >>]
    /\ test_suites_ \in { << "S1", "S2" >>, << "S2", "S1" >> }
    /\ init_deinit_suite_ \in [Suites -> [setup_ : BOOLEAN, teardown_ : BOOLEAN]]
    /\ constructed = Suites
    /\ results_ = << >>
    /\ lock_results_ = NoThread
    /\ current_suite_ = NoSuite
    /\ current_case_ = [s \in Suites |-> NoCase]
    /\ pc = "startup"
    /\ si = 0
    /\ ci = 0
    /\ pending = "none"
    /\ output = << >>
    /\ exit_status = << >>
    /\ log = << >>
    /\ op = Op("start", NoSuite, NoCase)
    /\ nasserts = 0
    /\ wpc = [w \in Workers |-> "idle"]
    /\ wrec = [w \in Workers |-> NoRecord]
    /\ wbuf = [w \in Workers |-> << >>]
    /\ npush = 0

NextHooks ==
    \/ run_begin
    \/ run_next_suite
    \/ run_loop_end
    \/ \E h \in HookOps : suite_initializer_ctor(h)
    \/ suite_next_case
    \/ suite_loop_end
    \/ case_throw("fatal", "raise_error")
    \/ case_throw("other", "")
    \/ case_return
    \/ \E h \in HookOps : suite_initializer_dtor(h)
    \/ run_catch
    \/ process_results

SpecHooks == InitHooks /\ [][NextHooks]_vars

-----------------------------------------------------------------------------
\* The setup hook of suite s has been invoked and has thrown.
SetupRaised(s) ==
    \E e \in Range(log) : e.ev = "setup" /\ e.suite = s /\ e.what # "none"

\* Number of invocations of the teardown hook of suite s.
Teardowns(s) == Count(log, LAMBDA e : e.ev = "teardown" /\ e.suite = s)

\* C21: for a suite that declares a teardown hook and whose run() has been
\* left, the hook was invoked exactly once if the setup hook returned or is
\* absent, and not at all otherwise; a hook is never invoked twice, and never
\* when none is declared. When the setup hook throws, no case of the suite
\* runs, the suite records nothing, and the value reaches the manager: a
\* fatal error ends the run with no record added, any other value with the
\* synthetic exception record.
C21_TeardownBracketedWithSetup ==
    /\ [](\A s \in Suites :
              /\ Teardowns(s) <= 1
              /\ ~init_deinit_suite_[s].teardown_ => Teardowns(s) = 0
              /\ Ended(s) /\ init_deinit_suite_[s].teardown_ =>
                     (Teardowns(s) = 1 <=>
                          (~init_deinit_suite_[s].setup_ \/ SetupReturned(s))))
    /\ [](\A s \in Suites :
              SetupRaised(s) =>
                  /\ CaseEvents(s) = << >>
                  /\ Teardowns(s) = 0
                  /\ \A r \in Range(results_) : r.suite_name # s
                  /\ pc \in {"m_catch", "m_report", "done"}
                  /\ Last(log).ev = "setup" /\ Last(log).suite = s)
    /\ [][pc = "s_init" /\ Last(log').ev = "setup" /\ Last(log').what # "none" =>
              /\ pc' = "m_catch"
              /\ results_' = results_
              /\ pending' = (IF Last(log').what = "fatal" THEN "fatal" ELSE "other")]_vars
    /\ [][pc = "m_catch" /\ Last(log).ev = "setup" =>
              /\ pc' = "m_report"
              /\ IF Last(log).what = "fatal"
                    THEN results_' = results_
                    ELSE Appended(results_, results_') /\ IsSynthetic(Last(results_'))]_vars

\* The first suite declares a teardown hook only: its case returned and the
\* hook ran once. The second declares both hooks: its setup hook threw, so
\* neither its case nor its teardown hook ran; run() has returned with the
\* success record and the synthetic exception record.
C21_Witness ==
    /\ pc = "done"
    /\ LET a == test_suites_[1]
           b == test_suites_[2]
       IN  /\ ~init_deinit_suite_[a].setup_ /\ init_deinit_suite_[a].teardown_
           /\ init_deinit_suite_[b].setup_ /\ init_deinit_suite_[b].teardown_
           /\ [i \in 1 .. Len(log) |-> << log[i].ev, log[i].suite, log[i].what >>]
                  = << << "run", a, "" >>, << "case", a, "return" >>,
                       << "teardown", a, "none" >>,
                       << "run", b, "" >>, << "setup", b, "other" >> >>
           /\ Teardowns(a) = 1 /\ Teardowns(b) = 0
           /\ [i \in 1 .. Len(results_) |-> results_[i].type] = << "success", "exception" >>
           /\ results_[1].suite_name = a /\ IsSynthetic(results_[2])

-----------------------------------------------------------------------------
\* The setup hook of some suite failed an assertion that raised a fatal error.
SetupAssertFatal ==
    /\ Len(log) > 0
    /\ Last(log).ev = "setup" /\ Last(log).what = "fatal"

\* C22: a failing XTL_UT_CHECK or XTL_UT_REQUIRE in a setup hook, evaluated
\* with current_suite_ set and current_case_ null, raises the fatal error of
\* case_name() before a fail record is built: results_ is unchanged, the
\* error reaches the manager, nothing else of the run executes (no case of
\* the suite, no teardown, no later suite), and the report holds no record of
\* the suite or of the assertion.
C22_SetupAssertRecordsNothing ==
    /\ [](pc = "s_init" /\ current_case_[this_suite] = NoCase =>
              \A fatal \in BOOLEAN :
                  LET r == XTL_UT_ASSERT(fatal, 2, "xtl_ut.cpp", this_suite \o "::setup",
                                         MainThread)
                  IN  /\ r.signal = "fatal" /\ ~r.pushed /\ r.results = results_
                      /\ r.msg = "[XTL UT] Error getting current test case name: "
                                  \o "no unit test currently is running.")
    /\ [][/\ pc = "s_init" /\ op'.name = "setup" /\ nasserts' = nasserts + 1
          /\ current_suite_ = this_suite /\ current_case_[this_suite] = NoCase
          =>
          /\ Last(log').ev = "setup" /\ Last(log').what = "fatal" /\ Last(log').n = 0
          /\ results_' = results_ /\ npush' = npush
          /\ pc' = "m_catch" /\ pending' = "fatal"]_vars
    /\ [][SetupAssertFatal => log' = log /\ results_' = results_]_vars
    /\ [](SetupAssertFatal /\ pc = "done" =>
              /\ output = Rendered(results_)
              /\ \A r \in Range(results_) :
                     /\ r.suite_name # Last(log).suite
                     /\ r.function_name # Last(log).suite \o "::setup")

\* The first suite, without hooks, ran its case, which returned; the setup
\* hook of the second suite failed an assertion: run() has returned, the case
\* and the teardown hook of the second suite never ran, and the report is the
\* success record of the first suite alone.
C22_Witness ==
    /\ pc = "done"
    /\ SetupAssertFatal
    /\ nasserts = 1
    /\ LET a == test_suites_[1]
           b == test_suites_[2]
       IN  /\ init_deinit_suite_[b].setup_ /\ init_deinit_suite_[b].teardown_
           /\ [i \in 1 .. Len(log) |-> << log[i].ev, log[i].suite >>]
                  = << << "run", a >>, << "case", a >>, << "run", b >>, << "setup", b >> >>
           /\ Len(results_) = 1
           /\ results_[1].type = "success" /\ results_[1].suite_name = a
           /\ Len(output) = 1

-----------------------------------------------------------------------------
\* A main that calls XTL_UT_RUN again after it returned. The manager and the
\* suites are the same objects: nothing of them is reset between the calls.

\* run() starting with an empty result list.
run_again_clearing_results ==
    /\ pc = "done"
    /\ Len(exit_status) < MaxRuns
    /\ pc' = "m_loop"
    /\ si' = 1
    /\ results_' = << >>
    /\ log' = Append(log, [Event("main", NoSuite, 0, "run") EXCEPT !.n = Len(results_)])
    /\ op' = Op("run_again", NoSuite, NoCase)
    /\ UNCHANGED << regVars, lock_results_, current_suite_, current_case_,
                    ci, pending, output, exit_status, nasserts, workerVars, npush >>

\* main calls XTL_UT_RUN once more: parse_cmd_args, then the loop starts. The
\* history entry notes how many records results_ holds at the call.
run_again ==
    /\ pc = "done"
    /\ Len(exit_status) < MaxRuns
    /\ pc' = "m_loop"
    /\ si' = 1
    /\ log' = Append(log, [Event("main", NoSuite, 0, "run") EXCEPT !.n = Len(results_)])
    /\ op' = Op("run_again", NoSuite, NoCase)
    /\ UNCHANGED << regVars, results_, lock_results_, current_suite_, current_case_,
                    ci, pending, output, exit_status, nasserts, workerVars, npush >>

\* The state after static initialisation of a program with two suites of two
\* cases each, registered in either order.
InitRerun ==
    /\ storage = [s \in Suites |->
                    << XTL_UT_CASE(declared(s)[1], "xtl_ut.cpp"),
                       XTL_UT_CASE(declared(s)[2], "xtl_ut.cpp") >>]
    /\ test_suites_ \in { << "S1", "S2" >>, << "S2", "S1" >> }
    /\ init_deinit_suite_ =
           [s \in Suites |-> [setup_ |-> declares_setup(s), teardown_ |-> declares_teardown(s)]]
    /\ constructed = Suites
    /\ results_ = << >>
    /\ lock_results_ = NoThread
    /\ current_suite_ = NoSuite
    /\ current_case_ = [s \in Suites |-> NoCase]
    /\ pc = "startup"
    /\ si = 0
    /\ ci = 0
    /\ pending = "none"
    /\ output = << >>
    /\ exit_status = << >>
    /\ log = << >>
    /\ op = Op("start", NoSuite, NoCase)
    /\ nasserts = 0
    /\ wpc = [w \in Workers |-> "idle"]
    /\ wrec = [w \in Workers |-> NoRecord]
    /\ wbuf = [w \in Workers |-> << >>]
    /\ npush = 0

NextRerun ==
    \/ run_begin
    \/ run_again
    \/ run_next_suite
    \/ run_loop_end
    \/ \E h \in {"return", "check"} : suite_initializer_ctor(h)
    \/ suite_next_case
    \/ suite_loop_end
    \/ case_throw("fatal", "raise_error")
    \/ case_return
    \/ suite_initializer_dtor("return")
    \/ run_catch
    \/ process_results

SpecRerun == InitRerun /\ [][NextRerun]_vars

-----------------------------------------------------------------------------
\* The history, call of run() by call of run().

\* Where the calls of run() start in log: 0 for the first call, the position
\* of its history entry for a later call.
Marks == {0} \cup { i \in 1 .. Len(log) : log[i].ev = "main" }

\* The hooks, case bodies and suites of the call of run() that starts at i.
RunLog(i) ==
    LET later == { j \in Marks : j > i }
        last  == IF later = {} THEN Len(log)
                 ELSE (CHOOSE j \in later : \A k \in later : j <= k) - 1
    IN  SubSeq(log, i + 1, last)

\* The call of run() that starts at i has returned.
RunReturned(i) == pc = "done" \/ \E j \in Marks : j > i

\* Nothing ended the call early: no fatal error, and every setup hook returned.
RunUndisturbed(i) ==
    \A e \in Range(RunLog(i)) : e.what # "fatal" /\ (e.ev = "setup" => e.what = "none")

\* The suites and cases invoked by the call of run() that starts at i.
RunShape(i) ==
    LET evs == SelectSeq(RunLog(i), LAMBDA e : e.ev \in {"run", "case"})
    IN  [k \in 1 .. Len(evs) |-> << evs[k].ev, evs[k].suite, evs[k].func >>]

RECURSIVE FullShape(_)
\* Every suite of suites in order, each followed by its cases in registry order.
FullShape(suites) ==
    IF suites = << >> THEN << >>
    ELSE << << "run", Head(suites), 0 >> >>
         \o [k \in 1 .. Len(storage[Head(suites)]) |->
                << "case", Head(suites), storage[Head(suites)][k].func >>]
         \o FullShape(Tail(suites))

\* C23: run() changes neither test_suites_ nor the registries and never
\* removes a record from results_, also when it is called again; every call
\* that nothing ends early invokes every registered suite and case, in the
\* same order as any other such call; the records of a later call come after
\* those of the earlier ones, and each report writes a line for every record
\* of results_, those of the earlier calls included.
C23_SecondRunRepeatsAndAccumulates ==
    /\ [][pc # "startup" =>
              /\ test_suites_' = test_suites_ /\ storage' = storage
              /\ init_deinit_suite_' = init_deinit_suite_]_vars
    /\ [][IsPrefix(results_, results_')]_vars
    /\ [][op'.name = "run_again" =>
              /\ results_' = results_ /\ output' = output
              /\ Last(log').n = Len(results_)
              /\ pc' = "m_loop" /\ si' = 1]_vars
    /\ [](\A i \in Marks :
              RunReturned(i) /\ RunUndisturbed(i) => RunShape(i) = FullShape(test_suites_))
    /\ [][pc = "m_report" /\ pc' = "done" =>
              output' = output \o Rendered(results_) /\ results_' = results_]_vars
    /\ [](pc = "done" =>
              /\ Len(output) >= Len(results_)
              /\ SubSeq(output, Len(output) - Len(results_) + 1, Len(output))
                     = Rendered(results_))

\* run() was called twice and nothing ended either call early: both calls
\* ran both suites and their four cases in the same order, the first
\* collected four records, the second appended the same four after them, and
\* the second report wrote all eight.
C23_Witness ==
    /\ pc = "done"
    /\ Len(exit_status) = 2
    /\ Cardinality(Marks) = 2
    /\ \A i \in Marks : RunUndisturbed(i) /\ RunShape(i) = FullShape(test_suites_)
    /\ \E i \in Marks : i > 0 /\ log[i].n = 4
    /\ Len(results_) = 8
    /\ SubSeq(results_, 5, 8) = SubSeq(results_, 1, 4)
    /\ \A r \in Range(results_) : r.type = "success"
    /\ output = Rendered(SubSeq(results_, 1, 4)) \o Rendered(results_)

-----------------------------------------------------------------------------
\* Worker threads that evaluate a failing XTL_UT_CHECK: the macro reads
\* current_suite(), then case_name() of that suite, builds the fail record and
\* calls add_result, each at its own moment of the run of the main thread.

\* The case body starts worker w, whose function (written in the case body,
\* four lines below the case declaration) evaluates XTL_UT_CHECK(exp) with
\* exp false.
case_spawn_check(w) ==
    /\ pc = "body"
    /\ wpc[w] = "idle"
    /\ wpc' = [wpc EXCEPT ![w] = "assert"]
    /\ wrec' = [wrec EXCEPT ![w] =
                   make_fail(this_case.line + 4, this_case.file, "", "", "worker",
                             "Assertion failed: exp", w)]
    /\ op' = Op("spawn_check", this_suite, this_case)
    /\ UNCHANGED << regVars, results_, lock_results_, current_suite_, current_case_,
                    pc, si, ci, pending, output, exit_status, log, nasserts, wbuf, npush >>

\* const auto& s = test_suite_manager::instance().current_suite();
w_current_suite(w) ==
    /\ wpc[w] = "assert"
    /\ IF current_suite.raised
          THEN wpc' = [wpc EXCEPT ![w] = "raised"] /\ wrec' = wrec
          ELSE /\ wpc' = [wpc EXCEPT ![w] = "suite_read"]
               /\ wrec' = [wrec EXCEPT ![w].suite_name = current_suite.value]
    /\ UNCHANGED << regVars, results_, lock_results_, current_suite_, current_case_,
                    pc, si, ci, pending, output, exit_status, log, op, nasserts,
                    wbuf, npush >>

\* s.case_name() taking the name whatever current_case_ is.
w_case_name_unchecked(w) ==
    /\ wpc[w] = "suite_read"
    /\ wpc' = [wpc EXCEPT ![w] = "start"]
    /\ wrec' = [wrec EXCEPT ![w].case_name = current_case_[wrec[w].suite_name].name]
    /\ UNCHANGED << regVars, results_, lock_results_, current_suite_, current_case_,
                    pc, si, ci, pending, output, exit_status, log, op, nasserts,
                    wbuf, npush >>

\* make_fail(__LINE__, __FILE__, s.suite_name(), s.case_name(), ...): the case
\* name is read from the suite obtained before; add_result is called next.
w_case_name(w) ==
    /\ wpc[w] = "suite_read"
    /\ LET c == case_name(wrec[w].suite_name) IN
       IF c.raised
          THEN wpc' = [wpc EXCEPT ![w] = "raised"] /\ wrec' = wrec
          ELSE /\ wpc' = [wpc EXCEPT ![w] = "start"]
               /\ wrec' = [wrec EXCEPT ![w].case_name = c.value]
    /\ UNCHANGED << regVars, results_, lock_results_, current_suite_, current_case_,
                    pc, si, ci, pending, output, exit_status, log, op, nasserts,
                    wbuf, npush >>

\* The state after static initialisation of a program whose first suite has
\* two cases and whose second suite has one.
InitWorkerCheck ==
    /\ storage = [s \in Suites |->
                    IF s = "S1"
                       THEN << XTL_UT_CASE(declared(s)[1], "xtl_ut.cpp"),
                               XTL_UT_CASE(declared(s)[2], "xtl_ut.cpp") >>
                       ELSE << XTL_UT_CASE(declared(s)[1], "xtl_ut.cpp") >>]
    /\ test_suites_ = << "S1", "S2" >>
    /\ init_deinit_suite_ =
           [s \in Suites |-> [setup_ |-> declares_setup(s), teardown_ |-> declares_teardown(s)]]
    /\ constructed = Suites
    /\ results_ = << >>
    /\ lock_results_ = NoThread
    /\ current_suite_ = NoSuite
    /\ current_case_ = [s \in Suites |-> NoCase]
    /\ pc = "startup"
    /\ si = 0
    /\ ci = 0
    /\ pending = "none"
    /\ output = << >>
    /\ exit_status = << >>
    /\ log = << >>
    /\ op = Op("start", NoSuite, NoCase)
    /\ nasserts = 0
    /\ wpc = [w \in Workers |-> "idle"]
    /\ wrec = [w \in Workers |-> NoRecord]
    /\ wbuf = [w \in Workers |-> << >>]
    /\ npush = 0

NextWorkerCheck ==
    \/ run_begin
    \/ run_next_suite
    \/ run_loop_end
    \/ suite_initializer_ctor("return")
    \/ suite_next_case
    \/ suite_loop_end
    \/ case_throw("fatal", "raise_error")
    \/ case_return
    \/ suite_initializer_dtor("return")
    \/ run_catch
    \/ process_results
    \/ \E w \in Workers :
          /\ \A v \in Workers : v < w => wpc[v] # "idle"
          /\ case_spawn_check(w)
    \/ \E w \in Workers : w_current_suite(w)
    \/ \E w \in Workers : w_case_name(w)
    \/ \E w \in Workers : w_add_result_check(w)
    \/ \E w \in Workers : w_add_result_lock(w)
    \/ \E w \in Workers : w_add_result_push(w)

SpecWorkerCheck == InitWorkerCheck /\ [][NextWorkerCheck]_vars

-----------------------------------------------------------------------------
\* The records in results_ made by worker w.
WorkerRecords(w) == SelectSeq(results_, LAMBDA r : r.thread_id = w)

\* C24: the fail record of a failing XTL_UT_CHECK on a worker thread carries
\* the suite that current_suite_ names when the worker reads it and the name
\* of the case that current_case_ of that suite names when the worker reads
\* it (current_suite_ still names that suite then), whichever case started
\* the thread; when current_suite_ is null at the
\* first read, current_case_ is null at the second, or current_suite_ is null
\* when add_result tests it, the worker gets a fatal error and no record of
\* it is appended; otherwise exactly the record built is appended.
C24_WorkerCheckUsesCurrentContext ==
    /\ [][\A w \in Workers :
              /\ wpc[w] = "assert" /\ wpc'[w] = "suite_read" =>
                     current_suite_ # NoSuite /\ wrec'[w].suite_name = current_suite_
              /\ wpc[w] = "assert" /\ wpc'[w] = "raised" =>
                     current_suite_ = NoSuite /\ results_' = results_
              /\ wpc[w] = "suite_read" /\ wpc'[w] = "start" =>
                     /\ current_case_[wrec[w].suite_name] # NoCase
                     /\ wrec'[w].case_name = current_case_[wrec[w].suite_name].name
                     /\ wrec'[w].suite_name = wrec[w].suite_name
                     /\ wrec[w].suite_name = current_suite_
              /\ wpc[w] = "suite_read" /\ wpc'[w] = "raised" =>
                     current_case_[wrec[w].suite_name] = NoCase /\ results_' = results_
              /\ wpc[w] = "start" /\ wpc'[w] = "raised" =>
                     current_suite_ = NoSuite /\ results_' = results_
              /\ wpc[w] = "locked" /\ wpc'[w] = "done" =>
                     results_' = Append(results_, wrec[w])]_vars
    /\ [](\A w \in Workers :
              /\ wpc[w] # "done" => WorkerRecords(w) = << >>
              /\ wpc[w] = "done" => WorkerRecords(w) = << wrec[w] >>
              /\ wpc[w] \notin {"idle", "assert"} /\ wrec[w].suite_name = "" => wpc[w] = "raised")

\* Both workers were started by the first case of the first suite (their
\* check is four lines below its declaration): the record of the first
\* carries the second case of that suite, the record of the second carries
\* the second suite and its case.
C24_Witness ==
    /\ \A w \in Workers : wpc[w] = "done" /\ wrec[w].line = storage["S1"][1].line + 4
    /\ wrec[1].suite_name = "S1" /\ wrec[1].case_name = storage["S1"][2].name
    /\ wrec[2].suite_name = "S2" /\ wrec[2].case_name = storage["S2"][1].name
    /\ storage["S1"][2].name # storage["S1"][1].name
    /\ wrec[1] \in Range(results_) /\ wrec[2] \in Range(results_)

====
